---- MODULE Spec2Model ----
(* A model of the URL-resolution engine of site_crawler.py:                *)
(* fetch_status (one request per Link, with retries) run by                *)
(* process_urls_async under an asyncio.Semaphore, its results collected    *)
(* with asyncio.as_completed.                                             *)
(*                                                                         *)
(* Python strings are sequences of tokens: a URL is <<origin, path>>, the  *)
(* empty string is << >>, a relative reference is <<path>>, and an error   *)
(* text is <<text>>.  Status codes are written as strings so that they     *)
(* share a type with the markers "Error", "Redirect Loop" and              *)
(* "Too Many Redirects" that the code returns in the same position.        *)
EXTENDS Integers, Sequences, FiniteSets, TLC

\* ------------------------------------------------------------------ bounds
\* Longest input list of links.
MaxLinks == 3
\* Largest value of max_concurrent_requests tried.
MaxPermits == 2
\* Largest value of max_depth tried.
MaxDepth == 2

\* ------------------------------------------------------- program constants
\* fetch_status(session, url, retries=3, delay=2)
retries == 3
\* MAX_REDIRECTS = 5
MAX_REDIRECTS == 5

\* ------------------------------------------------------------ the web
Origin == "http://example.com"
HttpOrigins == {Origin}

Url(path) == <<Origin, path>>

\* The pages of the modelled site.
UrlA == Url("/a")
UrlB == Url("/b")
UrlX == Url("/x")
UrlY == Url("/y")
UrlS == Url("/s")
UrlOk == Url("/ok")
UrlMoved == Url("/moved")
UrlGone == Url("/gone")
UrlW == Url("/w")
UrlStable == Url("/stable")
ChainPath == <<"/r0", "/r1", "/r2", "/r3", "/r4", "/r5", "/r6">>
UrlR(k) == Url(ChainPath[k + 1])

\* A response as fetch_status reads it: the status and the Location header
\* (has_location FALSE: the header is absent).
Response(status, has_location, location) ==
    [status |-> status, has_location |-> has_location, location |-> location]

NoResponse == Response("", FALSE, << >>)

\* What the site answers for each URL when the request gets through.
\*   /a  -> 301 Location: /b (relative);   /b -> 200
\*   /x  -> 301 /y,  /y -> 302 /x          (a two-page redirect loop)
\*   /r0 -> /r1 -> ... -> /r6 -> 200       (a chain of 6 redirects)
\*   /s  -> 308 /s                         (redirects to itself)
\*   /ok -> 200;  /moved -> 200 with a Location;  /gone -> 404 or 500
\*   /w  -> 307 with an empty Location, or 200 with Location: /w
\*   /stable -> 200 with a Location
Server(url) ==
    CASE url = UrlA -> {Response("301", TRUE, <<"/b">>)}
      [] url = UrlB -> {Response("200", FALSE, << >>)}
      [] url = UrlX -> {Response("301", TRUE, UrlY)}
      [] url = UrlY -> {Response("302", TRUE, UrlX)}
      [] url = UrlS -> {Response("308", TRUE, UrlS)}
      [] url = UrlOk -> {Response("200", FALSE, << >>)}
      [] url = UrlMoved -> {Response("200", TRUE, UrlOk)}
      [] url = UrlGone -> {Response("404", FALSE, << >>), Response("500", FALSE, << >>)}
      [] url = UrlStable -> {Response("200", TRUE, UrlOk)}
      [] url = UrlW -> {Response("307", TRUE, << >>), Response("200", TRUE, <<"/w">>)}
      [] url = UrlR(6) -> {Response("200", FALSE, << >>)}
      [] OTHER -> {Response("301", TRUE, UrlR(k + 1)) : k \in {j \in 0..5 : url = UrlR(j)}}

\* The exceptions a request can raise (aiohttp / asyncio), by class name.
RequestExceptions == {"TimeoutError", "ClientConnectorError"}

\* The exceptions a request for url may raise: /stable always answers, /x
\* may time out, every other page may fail either way.
Failures(url) ==
    CASE url = UrlStable -> {}
      [] url = UrlX -> {"TimeoutError"}
      [] OTHER -> RequestExceptions

\* ------------------------------------------------------------ fetch_status
\* str.startswith("http")
StartsWithHttp(s) == s # << >> /\ s[1] \in HttpOrigins

\* A join that leaves the reference as it is.
urljoin_Unresolved(base, ref) == ref

\* urllib.parse.urljoin(base, ref) for an absolute-path reference ("/b"):
\* the origin of base followed by ref.  An empty ref gives base.
urljoin(base, ref) == IF ref = << >> THEN base ELSE <<base[1]>> \o ref

\* The return value None of fetch_status, and a returned triple.
NoneResult == [none |-> TRUE, url |-> << >>, status |-> "", destination |-> << >>]
Triple(url, status, destination) ==
    [none |-> FALSE, url |-> url, status |-> status, destination |-> destination]

\* response.headers.get('Location', url), then the normalisation of a
\* relative value.
DestinationUrl(url, response) ==
    LET destination_url == IF response.has_location THEN response.location ELSE url
    IN  IF destination_url # << >> /\ ~StartsWithHttp(destination_url)
        THEN urljoin(url, destination_url)
        ELSE destination_url

\* The body without the "destination_url == url" test.
HandleResponse_NoSelfTest(url, response, visited_urls) ==
    LET destination_url == DestinationUrl(url, response)
        visited == visited_urls \cup {destination_url}
    IN  IF destination_url = << >>
        THEN [result |-> Triple(url, response.status, << >>), visited_urls |-> visited_urls]
        ELSE IF destination_url \in visited_urls
        THEN [result |-> Triple(url, "Redirect Loop", destination_url),
              visited_urls |-> visited_urls]
        ELSE IF Cardinality(visited) > MAX_REDIRECTS
        THEN [result |-> Triple(url, "Too Many Redirects", destination_url),
              visited_urls |-> visited]
        ELSE IF response.status = "200"
        THEN [result |-> NoneResult, visited_urls |-> visited]
        ELSE [result |-> Triple(url, response.status, destination_url),
              visited_urls |-> visited]

\* The body of "async with session.get(...) as response": the value returned
\* and the visited set it leaves behind.
HandleResponse(url, response, visited_urls) ==
    LET destination_url == DestinationUrl(url, response)
        visited == visited_urls \cup {destination_url}
    IN  IF destination_url = << >> \/ destination_url = url
        THEN [result |-> Triple(url, response.status, << >>), visited_urls |-> visited_urls]
        ELSE IF destination_url \in visited_urls
        THEN [result |-> Triple(url, "Redirect Loop", destination_url),
              visited_urls |-> visited_urls]
        ELSE IF Cardinality(visited) > MAX_REDIRECTS
        THEN [result |-> Triple(url, "Too Many Redirects", destination_url),
              visited_urls |-> visited]
        ELSE IF response.status = "200"
        THEN [result |-> NoneResult, visited_urls |-> visited]
        ELSE [result |-> Triple(url, response.status, destination_url),
              visited_urls |-> visited]

\* A handler that names one exception class only.
Caught_TimeoutOnly(e) == e = "TimeoutError"

\* "except Exception": asyncio.TimeoutError and aiohttp's ClientError classes
\* all derive from Exception.
Caught(e) == e \in RequestExceptions

\* A handler that gives up one attempt early.
ShouldRetry_OneShort(attempt) == attempt < retries - 2

\* A handler that sleeps after every failed attempt, the last included.
ShouldRetry_Always(attempt) == TRUE

\* "if attempt < retries - 1": sleep and try again; else give up.
ShouldRetry(attempt) == attempt < retries - 1

\* str(e)
ErrorText(e) == <<e>>


\* ------------------------------------------------------- process_urls_async
\* A link as crawl_recursively produces it.
Link(page, anchor, url) == [PageLinkedFrom |-> page, AnchorText |-> anchor, URL |-> url]

\* The links given to process_urls_async in the concurrent runs ...
LinkPool ==
    {Link(UrlA, <<"stable">>, UrlStable), Link(UrlB, <<"x">>, UrlX)}

\* ... and in the runs that resolve one link, which cover every page.
FetchPool ==
    {Link(UrlOk, <<"anchor">>, u) :
        u \in {UrlA, UrlB, UrlX, UrlY, UrlS, UrlOk, UrlMoved, UrlGone, UrlW, UrlStable,
               UrlR(0), UrlR(5)}}

SeqsUpTo(S, n) == UNION {[1..k -> S] : k \in 0..n}

VARIABLES
    links,                   \* the argument links
    max_concurrent_requests, \* the argument max_concurrent_requests
    semaphore,               \* the value of asyncio.Semaphore: free permits
    pc,                      \* per task: where fetch_with_limit is suspended
    attempt,                 \* per task: the loop variable of fetch_status
    visited_urls,            \* per task: the local set visited_urls
    n_requests,              \* per task: session.get calls issued so far
    response,                \* per task: the response received, if any
    error,                   \* per task: the exception e last caught, if any
    result,                  \* per task: the value fetch_with_limit returned
    events,                  \* per task: what fetch_with_limit has done, in order
    request_counter,         \* the nonlocal request_counter
    done_queue,              \* as_completed: finished tasks not yet yielded
    idx,                     \* the enumerate index of the collecting loop
    results,                 \* the list results
    record_task,             \* for each entry of results, the task it came from
    main_pc,                 \* where process_urls_async itself is
    site_links,              \* per page: the internal links extract_links finds
    max_depth,               \* the argument max_depth of crawl_recursively
    to_crawl,                \* the list to_crawl of (url, depth)
    crawled,                 \* the set crawled
    all_links,               \* the list all_links
    fetch_log,               \* the (url, depth) of each extract_links call
    dequeue_log,             \* the (url, depth) of each to_crawl.pop(0)
    fetch_failed,            \* whether some extract_links call has failed
    crawl_pc                 \* where crawl_recursively is

vars == <<links, max_concurrent_requests, semaphore, pc, attempt, visited_urls,
          n_requests, response, error, result, events, request_counter,
          done_queue, idx, results, record_task, main_pc,
          site_links, max_depth, to_crawl, crawled, all_links, fetch_log,
          dequeue_log, fetch_failed, crawl_pc>>

\* The state of crawl_recursively.
crawl_vars == <<site_links, max_depth, to_crawl, crawled, all_links, fetch_log,
                dequeue_log, fetch_failed, crawl_pc>>

\* The state of process_urls_async.
resolver_vars == <<links, max_concurrent_requests, semaphore, pc, attempt,
                   visited_urls, n_requests, response, error, result, events,
                   request_counter, done_queue, idx, results, record_task, main_pc>>

\* crawl_recursively is not running.
CrawlIdle ==
    /\ site_links = << >>
    /\ max_depth = 0
    /\ to_crawl = << >>
    /\ crawled = {}
    /\ all_links = << >>
    /\ fetch_log = << >>
    /\ dequeue_log = << >>
    /\ fetch_failed = FALSE
    /\ crawl_pc = "idle"

Tasks == 1..Len(links)

\* Common part of Init: the state when as_completed has scheduled one task
\* per link and none has run yet.
Started ==
    /\ max_concurrent_requests \in {1, MaxPermits}
    /\ semaphore = max_concurrent_requests
    /\ pc = [i \in Tasks |-> "acquire"]
    /\ attempt = [i \in Tasks |-> 0]
    /\ visited_urls = [i \in Tasks |-> {}]
    /\ n_requests = [i \in Tasks |-> 0]
    /\ response = [i \in Tasks |-> NoResponse]
    /\ error = [i \in Tasks |-> ""]
    /\ result = [i \in Tasks |-> NoneResult]
    /\ events = [i \in Tasks |-> << >>]
    /\ request_counter = 0
    /\ done_queue = << >>
    /\ idx = 0
    /\ results = << >>
    /\ record_task = << >>
    /\ main_pc = "collecting"
    /\ CrawlIdle

Init == links \in SeqsUpTo(LinkPool, MaxLinks) /\ Started

InitFetch == links \in {<<l>> : l \in FetchPool} /\ Started

\* A semaphore whose acquire never blocks.
CanAcquire_NeverBlocks(value) == TRUE

\* asyncio.Semaphore.acquire does not block while the value is positive.
CanAcquire(value) == value > 0

\* A release that is skipped when the resolution ended in "Error".
ReleaseOnExit_NotOnError(value, res) == IF res.status = "Error" THEN value ELSE value + 1

\* The exit of "async with semaphore" releases the permit, whatever value or
\* exception leaves the block.
ReleaseOnExit(value, res) == value + 1

\* A task that goes from the acquire straight to its request.
AfterAcquire_NoPacing == "request"

\* Where a task that has entered "async with semaphore" is suspended next:
\* at the pacing sleep.
AfterAcquire == "pacing"

\* "async with semaphore:" entered.
Acquire(i) ==
    /\ pc[i] = "acquire"
    /\ CanAcquire(semaphore)
    /\ semaphore' = semaphore - 1
    /\ pc' = [pc EXCEPT ![i] = AfterAcquire]
    /\ events' = [events EXCEPT ![i] = Append(@, "acquire")]
    /\ UNCHANGED <<crawl_vars, links, max_concurrent_requests, attempt, visited_urls, n_requests,
                   response, error, result, request_counter, done_queue, idx, results,
                   record_task, main_pc>>

\* A visited set kept outside the call, shared by all resolutions.
NewVisitedSet_Shared(i) == UNION {visited_urls[j] : j \in Tasks}

\* A visited set that starts from the Link's own URL.
NewVisitedSet_WithUrl(i) == {links[i].URL}

\* "visited_urls = set()": each call of fetch_status starts an empty set.
NewVisitedSet(i) == {}

\* asyncio.sleep(random.uniform(0.5, 2)) is over; fetch_status is entered and
\* creates its visited set and starts its loop.
Pace(i) ==
    /\ pc[i] = "pacing"
    /\ pc' = [pc EXCEPT ![i] = "request"]
    /\ attempt' = [attempt EXCEPT ![i] = 0]
    /\ visited_urls' = [visited_urls EXCEPT ![i] = NewVisitedSet(i)]
    /\ events' = [events EXCEPT ![i] = Append(@, "pace")]
    /\ UNCHANGED <<crawl_vars, links, max_concurrent_requests, semaphore, n_requests, response,
                   error, result, request_counter, done_queue, idx, results,
                   record_task, main_pc>>

\* A counter advanced once per request attempt of the resolution.
CountRequest_PerAttempt(counter, i) == counter + n_requests[i] + 1

\* "request_counter += 1", with no await between the read and the write.
CountRequest(counter, i) == counter + 1

\* fetch_status returned res to fetch_with_limit, which counts the request,
\* leaves the semaphore block and returns res; as_completed queues the task.
\* before: what the task did in this step before fetch_status returned.
Returns(i, res, before) ==
    /\ result' = [result EXCEPT ![i] = res]
    /\ events' = [events EXCEPT ![i] = @ \o before \o <<"outcome", "count", "release">>]
    /\ request_counter' = CountRequest(request_counter, i)
    /\ semaphore' = ReleaseOnExit(semaphore, res)
    /\ pc' = [pc EXCEPT ![i] = "done"]
    /\ done_queue' = Append(done_queue, i)

\* An exception left fetch_status: it leaves the semaphore block (releasing
\* the permit) and ends the task, which as_completed queues.
Raises(i, before) ==
    /\ result' = result
    /\ events' = [events EXCEPT ![i] = @ \o before \o <<"release">>]
    /\ request_counter' = request_counter
    /\ semaphore' = semaphore + 1
    /\ pc' = [pc EXCEPT ![i] = "raised"]
    /\ done_queue' = Append(done_queue, i)

\* session.get answers: every path of the block returns.
RequestAnswered(i) ==
    /\ pc[i] = "request"
    /\ \E r \in Server(links[i].URL) :
         LET h == HandleResponse(links[i].URL, r, visited_urls[i])
         IN  /\ response' = [response EXCEPT ![i] = r]
             /\ visited_urls' = [visited_urls EXCEPT ![i] = h.visited_urls]
             /\ Returns(i, h.result, <<"request">>)
    /\ n_requests' = [n_requests EXCEPT ![i] = @ + 1]
    /\ UNCHANGED <<crawl_vars, links, max_concurrent_requests, attempt, error, idx, results,
                   record_task, main_pc>>

\* session.get raises: the handler sleeps before a retry, or gives up with
\* the "Error" triple.
RequestFailed(i) ==
    /\ pc[i] = "request"
    /\ \E e \in Failures(links[i].URL) :
         /\ error' = [error EXCEPT ![i] = e]
         /\ IF ~Caught(e)
            THEN Raises(i, <<"request">>)
            ELSE IF ShouldRetry(attempt[i])
            THEN /\ pc' = [pc EXCEPT ![i] = "retry_sleep"]
                 /\ events' = [events EXCEPT ![i] = @ \o <<"request", "retry_delay">>]
                 /\ UNCHANGED <<result, request_counter, semaphore, done_queue>>
            ELSE Returns(i, Triple(links[i].URL, "Error", ErrorText(e)), <<"request">>)
    /\ n_requests' = [n_requests EXCEPT ![i] = @ + 1]
    /\ UNCHANGED <<crawl_vars, links, max_concurrent_requests, attempt, visited_urls, response,
                   idx, results, record_task, main_pc>>

\* asyncio.sleep(delay) is over: the next iteration of "for attempt in
\* range(retries)", or, the range being exhausted, the end of the function
\* body, which returns None.
RetryDelay(i) ==
    /\ pc[i] = "retry_sleep"
    /\ IF attempt[i] + 1 < retries
       THEN /\ attempt' = [attempt EXCEPT ![i] = @ + 1]
            /\ pc' = [pc EXCEPT ![i] = "request"]
            /\ UNCHANGED <<result, events, request_counter, semaphore, done_queue>>
       ELSE /\ attempt' = attempt
            /\ Returns(i, NoneResult, << >>)
    /\ UNCHANGED <<crawl_vars, links, max_concurrent_requests, visited_urls, n_requests, response,
                   error, idx, results, record_task, main_pc>>

\* A filter that also drops the resolutions that ended in "Error".
Emits_DropsErrors(res) == ~res.none /\ res.status # "Error"

\* "if result is not None"
Emits(res) == ~res.none

\* The dict appended to results for the idx-th completion.
ResultRecord(res, k) ==
    [PageLinkedFrom |-> links[k + 1].PageLinkedFrom,
     AnchorText |-> links[k + 1].AnchorText,
     URLLinked |-> res.url,
     ResponseCode |-> res.status,
     DestinationURL |-> IF res.destination # res.url THEN res.destination ELSE << >>]

\* One iteration of "for idx, task in enumerate(asyncio.as_completed(tasks))":
\* the next finished task is awaited; its exception, if any, leaves
\* process_urls_async.
Collect ==
    /\ main_pc = "collecting"
    /\ done_queue # << >>
    /\ LET task == Head(done_queue)
       IN  IF pc[task] = "raised"
           THEN /\ main_pc' = "raised"
                /\ UNCHANGED <<idx, results, record_task>>
           ELSE /\ main_pc' = main_pc
                /\ idx' = idx + 1
                /\ IF Emits(result[task])
                   THEN /\ results' = Append(results, ResultRecord(result[task], idx))
                        /\ record_task' = Append(record_task, task)
                   ELSE UNCHANGED <<results, record_task>>
    /\ done_queue' = Tail(done_queue)
    /\ UNCHANGED <<crawl_vars, links, max_concurrent_requests, semaphore, pc, attempt, visited_urls,
                   n_requests, response, error, result, events, request_counter>>

\* as_completed is exhausted: "return results".
Return ==
    /\ main_pc = "collecting"
    /\ idx = Len(links)
    /\ main_pc' = "returned"
    /\ UNCHANGED <<crawl_vars, links, max_concurrent_requests, semaphore, pc, attempt, visited_urls,
                   n_requests, response, error, result, events, request_counter,
                   done_queue, idx, results, record_task>>

Next ==
    \/ \E i \in Tasks : Acquire(i)
    \/ \E i \in Tasks : Pace(i)
    \/ \E i \in Tasks : RequestAnswered(i)
    \/ \E i \in Tasks : RequestFailed(i)
    \/ \E i \in Tasks : RetryDelay(i)
    \/ Collect
    \/ Return

\* Any list of up to MaxLinks links of LinkPool, under any interleaving.
Spec == Init /\ [][Next]_vars

\* The event loop runs every task that can run, and every sleep and every
\* request (which has a timeout) ends.
FairSpec == Spec /\ WF_vars(Next)

\* One link, any page of the site.
SpecFetch == InitFetch /\ [][Next]_vars

\* -------------------------------------------------------- crawl_recursively
\* The pages of the crawled site; the crawl starts at base_url.
CrawlPages == {UrlA, UrlB, UrlX}
base_url == UrlA

\* The lists of links a page may hold: distinct pages, in any order.
LinkLists ==
    {l \in SeqsUpTo(CrawlPages, Cardinality(CrawlPages)) :
        \A j, k \in 1..Len(l) : j # k => l[j] # l[k]}

\* link.text.strip() of the anchor that leads to target.
AnchorOf(target) == <<"to", target[2]>>

\* What extract_links returns for a page: its internal links as dicts with
\* "Anchor Text" and "URL", or, when rendering fails, the empty list.
ExtractLinks(url) == {site_links[url], << >>}

\* process_urls_async is not running.
ResolverIdle ==
    /\ links = << >>
    /\ max_concurrent_requests = 1
    /\ semaphore = 1
    /\ pc = << >>
    /\ attempt = << >>
    /\ visited_urls = << >>
    /\ n_requests = << >>
    /\ response = << >>
    /\ error = << >>
    /\ result = << >>
    /\ events = << >>
    /\ request_counter = 0
    /\ done_queue = << >>
    /\ idx = 0
    /\ results = << >>
    /\ record_task = << >>
    /\ main_pc = "idle"

\* crawl_recursively(base_url, base_domain, max_depth) before its loop.
InitCrawl ==
    /\ site_links \in [CrawlPages -> LinkLists]
    /\ max_depth \in 0..MaxDepth
    /\ to_crawl = <<(<<base_url, 0>>)>>
    /\ crawled = {}
    /\ all_links = << >>
    /\ fetch_log = << >>
    /\ dequeue_log = << >>
    /\ fetch_failed = FALSE
    /\ crawl_pc = "crawling"
    /\ ResolverIdle

\* A pop that takes the newest entry.
PopIndex_Last(queue) == Len(queue)

\* "to_crawl.pop(0)": the position of the entry taken.
PopIndex(queue) == 1

RemoveAt(queue, n) == SubSeq(queue, 1, n - 1) \o SubSeq(queue, n + 1, Len(queue))

\* A test that forgets the depth.
ShouldSkip_CrawledOnly(current_url, depth) == current_url \in crawled

\* A test that forgets the crawled set.
ShouldSkip_DepthOnly(current_url, depth) == depth > max_depth

\* "if current_url in crawled or depth > max_depth: continue"
ShouldSkip(current_url, depth) == current_url \in crawled \/ depth > max_depth

\* One iteration of the loop that ends at "continue".
CrawlSkip ==
    /\ crawl_pc = "crawling"
    /\ to_crawl # << >>
    /\ LET entry == to_crawl[PopIndex(to_crawl)]
       IN  /\ ShouldSkip(entry[1], entry[2])
           /\ dequeue_log' = Append(dequeue_log, entry)
    /\ to_crawl' = RemoveAt(to_crawl, PopIndex(to_crawl))
    /\ UNCHANGED <<resolver_vars, site_links, max_depth, crawled, all_links, fetch_log,
                   fetch_failed, crawl_pc>>

\* One iteration of the loop that fetches the page: the page is marked, its
\* links are extracted, recorded with the page they come from, and queued
\* unless already crawled.
CrawlFetch ==
    /\ crawl_pc = "crawling"
    /\ to_crawl # << >>
    /\ LET entry == to_crawl[PopIndex(to_crawl)]
           current_url == entry[1]
           depth == entry[2]
       IN  /\ ~ShouldSkip(current_url, depth)
           /\ dequeue_log' = Append(dequeue_log, entry)
           /\ fetch_log' = Append(fetch_log, entry)
           /\ crawled' = crawled \cup {current_url}
           /\ \E found \in ExtractLinks(current_url) :
                 LET fresh == SelectSeq(found, LAMBDA u : u \notin crawled \cup {current_url})
                 IN  /\ fetch_failed' = (fetch_failed \/ found # site_links[current_url])
                     /\ all_links' = all_links \o
                            [k \in 1..Len(found) |->
                                Link(current_url, AnchorOf(found[k]), found[k])]
                     /\ to_crawl' = RemoveAt(to_crawl, PopIndex(to_crawl)) \o
                            [k \in 1..Len(fresh) |-> <<fresh[k], depth + 1>>]
    /\ UNCHANGED <<resolver_vars, site_links, max_depth, crawl_pc>>

\* The queue is empty: the browser is closed and all_links returned.
CrawlReturn ==
    /\ crawl_pc = "crawling"
    /\ to_crawl = << >>
    /\ crawl_pc' = "returned"
    /\ UNCHANGED <<resolver_vars, site_links, max_depth, to_crawl, crawled, all_links,
                   fetch_log, dequeue_log, fetch_failed>>

NextCrawl ==
    \/ CrawlSkip
    \/ CrawlFetch
    \/ CrawlReturn

\* A crawl of any link graph over CrawlPages, to any depth up to MaxDepth.
SpecCrawl == InitCrawl /\ [][NextCrawl]_vars

\* Every page fetch ends (page.goto has a timeout), so the loop goes on.
FairCrawl == SpecCrawl /\ WF_vars(NextCrawl)

\* ------------------------------------------------------------------ claims
\* The tasks inside the block guarded by the semaphore: at the pacing delay,
\* at a request attempt, or at a retry delay.
InFlight == {i \in Tasks : pc[i] \in {"pacing", "request", "retry_sleep"}}

Finished(i) == pc[i] = "done"

\* Task i got a response / never got one.
Answered(i) == response[i] # NoResponse

\* C1: the number of tasks inside the semaphore-guarded section (pacing
\* delay, request attempts, retry delays) never exceeds
\* max_concurrent_requests, for any number of links and any interleaving.
C1_ConcurrencyBound == Cardinality(InFlight) <= max_concurrent_requests

\* More links than permits, every permit taken, a task waiting to acquire.
C1_Witness ==
    /\ Len(links) > max_concurrent_requests
    /\ max_concurrent_requests > 1
    /\ Cardinality(InFlight) = max_concurrent_requests
    /\ \E i \in Tasks : pc[i] = "acquire"

\* C2: every Link whose response has status 200, with or without a Location
\* header, yields None and no record; no emitted record has Response Code
\* 200.
C2_Status200Skipped ==
    /\ \A i \in Tasks : Finished(i) /\ response[i].status = "200" => result[i].none
    /\ \A k \in 1..Len(results) : results[k].ResponseCode # "200"

\* C3: every record carries the 'Page Linked from' and 'Anchor Text' of the
\* Link whose resolution produced it, whose URL is the record's
\* 'URL (linked)', under any completion order.
C3_RecordFromResolvedLink ==
    \A k \in 1..Len(results) :
        /\ results[k].URLLinked = links[record_task[k]].URL
        /\ results[k].PageLinkedFrom = links[record_task[k]].PageLinkedFrom
        /\ results[k].AnchorText = links[record_task[k]].AnchorText

\* C4: a Link whose every request attempt raises is requested exactly
\* `retries` times, no more and no fewer, and then yields the "Error"
\* triple carrying the last error.
C4_RetryBound ==
    \A i \in Tasks :
        /\ ~Answered(i) => n_requests[i] <= retries
        /\ Finished(i) /\ ~Answered(i) =>
              /\ n_requests[i] = retries
              /\ error[i] \in RequestExceptions
              /\ result[i] = Triple(links[i].URL, "Error", ErrorText(error[i]))

\* A resolution that ended after `retries` failed attempts.
C4_Witness ==
    \E i \in Tasks :
        Finished(i) /\ ~Answered(i) /\ n_requests[i] = retries /\ result[i].status = "Error"

\* C5: every permit acquired is released when the Link's resolution
\* completes, whatever the outcome: the permits not free are exactly those
\* of the tasks still inside the guarded section (so no finished task holds
\* one), and once all tasks have finished all permits are free.
C5_PermitsReleased ==
    /\ semaphore + Cardinality(InFlight) = max_concurrent_requests
    /\ (\A i \in Tasks : Finished(i)) => semaphore = max_concurrent_requests

\* All tasks finished, one with "Error", one skipped, one resolved.
C5_Witness ==
    /\ \A i \in Tasks : Finished(i)
    /\ \E i \in Tasks : result[i].status = "Error"
    /\ \E i \in Tasks : result[i].none
    /\ \E i \in Tasks : result[i].status = "301"
    /\ semaphore = max_concurrent_requests

\* The pages of the site, and the statuses that redirect.
Site ==
    {UrlA, UrlB, UrlX, UrlY, UrlS, UrlOk, UrlMoved, UrlGone, UrlW, UrlStable}
        \cup {UrlR(k) : k \in 0..6}

RedirectStatuses == {"301", "302", "307", "308"}

\* Every answer of the site for u is a redirect to v.
RedirectsTo(u, v) ==
    \A r \in Server(u) :
        r.status \in RedirectStatuses /\ r.has_location /\ DestinationUrl(u, r) = v

\* u starts a chain of n successive redirects through pages not in seen.
RECURSIVE StartsChain(_, _, _)
StartsChain(u, n, seen) ==
    \/ n = 0
    \/ \E v \in Site \ seen : RedirectsTo(u, v) /\ StartsChain(v, n - 1, seen \cup {v})

\* The records emitted for task i.
RecordsOf(i) == {k \in 1..Len(results) : record_task[k] = i}

\* C6: when Link A's URL redirects to B and B redirects back to A, resolving
\* Link A yields the "Redirect Loop" outcome, and exactly one record is
\* emitted for it, with that Response Code.
C6_LoopReported ==
    \A i \in Tasks :
        (/\ \E b \in Site \ {links[i].URL} :
                RedirectsTo(links[i].URL, b) /\ RedirectsTo(b, links[i].URL)
         /\ Finished(i) /\ Answered(i))
        => /\ result[i].status = "Redirect Loop"
           /\ main_pc = "returned" =>
                /\ Cardinality(RecordsOf(i)) = 1
                /\ \A k \in RecordsOf(i) : results[k].ResponseCode = "Redirect Loop"

\* C7: a Link whose URL starts a chain of 6 successive redirects, the cap
\* being MAX_REDIRECTS = 5, yields the "Too Many Redirects" outcome.
C7_TooManyReported ==
    \A i \in Tasks :
        (/\ StartsChain(links[i].URL, MAX_REDIRECTS + 1, {links[i].URL})
         /\ Finished(i) /\ Answered(i))
        => result[i].status = "Too Many Redirects"

\* The chain of a resolution when its first response arrives: the Link's
\* own URL.
FirstChain(i) == {links[i].URL}

\* C8: a first response with a redirect status whose Location points at a
\* URL already in the chain (which starts from the Link's own URL) yields
\* "Redirect Loop", and no further request is made for that Link.
C8_FirstHopLoop ==
    \A i \in Tasks :
        (/\ Finished(i) /\ Answered(i)
         /\ n_requests[i] = 1
         /\ response[i].status \in RedirectStatuses
         /\ response[i].has_location
         /\ DestinationUrl(links[i].URL, response[i]) \in FirstChain(i))
        => result[i].status = "Redirect Loop"

\* The values fetch_status may return for task i: None, or a triple for
\* the Link's URL with a status.
IsOutcome(i, res) ==
    \/ res = NoneResult
    \/ /\ res = Triple(links[i].URL, res.status, res.destination)
       /\ res.status # ""

\* C9: no request failure escapes fetch_status: whatever each attempt does
\* (a response, or an exception), the call returns None or a triple and
\* raises nothing.
C9_NoEscape ==
    /\ main_pc # "raised"
    /\ \A i \in Tasks :
        /\ pc[i] # "raised"
        /\ Finished(i) => IsOutcome(i, result[i])

\* Resolutions that returned after a connection error: one with a response
\* at a later attempt, or with the "Error" triple.
C9_Witness ==
    /\ main_pc = "returned"
    /\ \E i \in Tasks :
        /\ Finished(i)
        /\ error[i] = "ClientConnectorError"
        /\ Answered(i) \/ result[i].status = "Error"

\* What process_urls_async returns: every task has finished, and there is
\* exactly one record for each task whose result is not None, carrying
\* that result, and none for the others.
ExactlyTheUnskipped ==
    /\ \A i \in Tasks : Finished(i)
    /\ Len(record_task) = Len(results)
    /\ \A i \in Tasks :
         Cardinality(RecordsOf(i)) = IF result[i].none THEN 0 ELSE 1
    /\ \A k \in 1..Len(results) :
         /\ results[k].URLLinked = result[record_task[k]].url
         /\ results[k].ResponseCode = result[record_task[k]].status

\* C10: process_urls_async runs to completion with every Link at a terminal
\* outcome, and returns exactly one record per Link whose outcome is not
\* Skipped (those that ended in "Error" included) and none for the Skipped.
C10_AllResolvedAndReported ==
    /\ <>(main_pc = "returned")
    /\ [](main_pc = "returned" => ExactlyTheUnskipped)

\* A returned run of three links: one failed, one skipped, one resolved.
C10_Witness ==
    /\ main_pc = "returned"
    /\ Len(links) = 3
    /\ \E i \in Tasks : result[i].status = "Error"
    /\ \E i \in Tasks : result[i].none
    /\ \E i \in Tasks : result[i].status = "301"
    /\ Len(results) = 2

\* The Location of a response, resolved against the Link's URL: an absolute
\* value as it is, a path on the origin of the URL.
ResolvedLocation(url, location) ==
    IF location[1] = Origin THEN location ELSE <<url[1], location[1]>>

\* Task i got a response at its first request, with a status other than 200
\* and a Location that, once resolved, is not the Link's URL.
FirstRequestRedirected(i) ==
    /\ Finished(i) /\ Answered(i)
    /\ error[i] = ""
    /\ response[i].status # "200"
    /\ response[i].has_location
    /\ response[i].location # << >>
    /\ ResolvedLocation(links[i].URL, response[i].location) # links[i].URL

\* C11: a Link whose first request succeeds with a non-200 status and a
\* Location that differs from its URL gets exactly one request and the
\* outcome (url, status, destination), a relative Location being resolved
\* against the Link's URL (301 with /b on http://example.com/a gives
\* http://example.com/b); one record is emitted, with that Destination URL.
C11_SingleHopResolved ==
    \A i \in Tasks :
        FirstRequestRedirected(i) =>
            LET destination == ResolvedLocation(links[i].URL, response[i].location)
            IN  /\ n_requests[i] = 1
                /\ result[i] = Triple(links[i].URL, response[i].status, destination)
                /\ links[i].URL = <<"http://example.com", "/a">> =>
                       destination = <<"http://example.com", "/b">>
                /\ main_pc = "returned" =>
                     /\ Cardinality(RecordsOf(i)) = 1
                     /\ \A k \in RecordsOf(i) :
                          /\ results[k].DestinationURL = destination
                          /\ results[k].ResponseCode = response[i].status

\* /a answered 301 with Location /b, and the record is out.
C11_Witness ==
    /\ main_pc = "returned"
    /\ \E i \in Tasks :
        /\ links[i].URL = UrlA
        /\ FirstRequestRedirected(i)
        /\ response[i].location = <<"/b">>
        /\ Len(results) = 1

\* Tasks i and j resolved the same Link URL and saw the same attempts: as
\* many requests, the same last exception, the same response.
SameObservations(i, j) ==
    /\ Finished(i) /\ Finished(j)
    /\ links[i].URL = links[j].URL
    /\ n_requests[i] = n_requests[j]
    /\ error[i] = error[j]
    /\ response[i] = response[j]

\* C12: two resolutions of the same Link that observe the same per-attempt
\* responses and failures yield the same outcome, status and destination,
\* whatever other Links were resolved before or at the same time.
C12_Deterministic ==
    \A i, j \in Tasks : SameObservations(i, j) => result[i] = result[j]

\* Two resolutions of /x that both failed once and were then answered, the
\* second started after the first had ended, with another Link resolved too.
C12_Witness ==
    \E i, j, k \in Tasks :
        /\ i # j
        /\ SameObservations(i, j)
        /\ n_requests[i] = 2 /\ Answered(i)
        /\ visited_urls[i] # {}
        /\ links[k].URL # links[i].URL /\ Finished(k)

\* C13: the chain tracked for a Link (its URL, then visited_urls) holds no
\* URL twice, and never more than MAX_REDIRECTS hops are tracked.
C13_ChainBounded ==
    \A i \in Tasks :
        /\ links[i].URL \notin visited_urls[i]
        /\ Cardinality(visited_urls[i]) <= MAX_REDIRECTS

\* A hop has been tracked for one Link.
C13_Witness ==
    \E i \in Tasks : Finished(i) /\ Cardinality(visited_urls[i]) = 1

\* C14: the completed-request counter loses no update: it grows by one with
\* each completed resolution, not with each request attempt, never goes
\* down, and is the number of links once all tasks have finished.
C14_CounterExact ==
    /\ [](request_counter = Cardinality({i \in Tasks : Finished(i)}))
    /\ [][request_counter' \in {request_counter, request_counter + 1}]_vars
    /\ []((\A i \in Tasks : Finished(i)) => request_counter = Len(links))

\* Three links resolved, one of them with three request attempts.
C14_Witness ==
    /\ Len(links) = 3
    /\ \A i \in Tasks : Finished(i)
    /\ \E i \in Tasks : n_requests[i] = retries
    /\ request_counter = 3

\* How often x occurs in the event list ev.
Count(ev, x) == Cardinality({k \in 1..Len(ev) : ev[k] = x})

\* C16: fetch_status retries only after a failed attempt and stops at the
\* first response: k - 1 failures then a response make exactly k requests,
\* the outcome is that of the response alone (never "Error"), and the retry
\* delay occurs once between two attempts and never after the last.
C16_RetryOnlyAfterFailure ==
    \A i \in Tasks :
        /\ Answered(i) => Finished(i)
        /\ Finished(i) /\ Answered(i) =>
              /\ n_requests[i] = Count(events[i], "retry_delay") + 1
              /\ n_requests[i] <= retries
              /\ result[i].status # "Error"
              /\ result[i] = HandleResponse(links[i].URL, response[i], {}).result
        /\ Finished(i) => Count(events[i], "retry_delay") = n_requests[i] - 1
        /\ \A k \in 1..Len(events[i]) :
              events[i][k] = "retry_delay" =>
                  /\ k > 1 /\ events[i][k - 1] = "request"
                  /\ k < Len(events[i]) => events[i][k + 1] = "request"
        /\ \A k \in 2..Len(events[i]) :
              events[i][k] = "request" => events[i][k - 1] \in {"pace", "retry_delay"}

\* Two failed attempts, then a response at the third.
C16_Witness ==
    \E i \in Tasks :
        /\ Finished(i) /\ Answered(i)
        /\ n_requests[i] = 3
        /\ Count(events[i], "retry_delay") = 2

\* Task i holds a permit.
Holds(i) == Count(events[i], "acquire") = 1 /\ Count(events[i], "release") = 0

\* The events of one task come in the order of fetch_with_limit.
WellOrdered(ev) ==
    \A k \in 1..Len(ev) :
        CASE ev[k] = "acquire" -> k = 1
          [] ev[k] = "pace" -> k = 2
          [] ev[k] = "request" -> k > 2 /\ ev[k - 1] \in {"pace", "retry_delay"}
          [] ev[k] = "retry_delay" -> k > 3 /\ ev[k - 1] = "request"
          [] ev[k] = "outcome" -> k > 3 /\ ev[k - 1] = "request"
          [] ev[k] = "count" -> k > 4 /\ ev[k - 1] = "outcome"
          [] ev[k] = "release" -> k > 5 /\ ev[k - 1] = "count" /\ k = Len(ev)
          [] OTHER -> FALSE

\* C17: for every Link the order is: acquire, pacing delay, first request,
\* terminal outcome, counter increment, release.  A task at a request
\* attempt or a retry delay holds a permit, and no request precedes the
\* task's pacing delay.
C17_EventOrder ==
    /\ semaphore >= 0
    /\ semaphore + Cardinality({i \in Tasks : Holds(i)}) = max_concurrent_requests
    /\ \A i \in Tasks :
        /\ WellOrdered(events[i])
        /\ pc[i] \in {"pacing", "request", "retry_sleep"} => Holds(i)
        /\ Count(events[i], "request") = n_requests[i]
        /\ Finished(i) => Count(events[i], "release") = 1

\* One task went through a retry to its release while another still waits
\* for a permit.
C17_Witness ==
    \E i, j \in Tasks :
        /\ events[i] = <<"acquire", "pace", "request", "retry_delay", "request",
                         "outcome", "count", "release">>
        /\ pc[j] = "acquire"

\* C18: within one call the visited set is empty whenever a destination is
\* tested against it, so it never holds more than one URL and fetch_status
\* never returns "Redirect Loop" or "Too Many Redirects".
C18_VisitedAlwaysFresh ==
    \A i \in Tasks :
        /\ pc[i] \in {"request", "retry_sleep"} => visited_urls[i] = {}
        /\ Cardinality(visited_urls[i]) <= 1
        /\ result[i].status \notin {"Redirect Loop", "Too Many Redirects"}

\* A Link in a redirect loop, resolved at its second attempt, and the
\* destination it tracked.
C18_Witness ==
    \E i \in Tasks :
        /\ links[i].URL = UrlX
        /\ Finished(i) /\ Answered(i)
        /\ n_requests[i] = 2
        /\ visited_urls[i] = {UrlY}

\* How often url occurs in a log of (url, depth) entries.
TimesIn(log, url) == Cardinality({k \in 1..Len(log) : log[k][1] = url})

\* C15: every call of extract_links is for a URL not fetched before in this
\* crawl and at a depth of at most max_depth, though the queue may hold the
\* same URL several times.
C15_FetchOnceWithinDepth ==
    /\ \A k \in 1..Len(fetch_log) : fetch_log[k][2] <= max_depth
    /\ \A j, k \in 1..Len(fetch_log) : j # k => fetch_log[j][1] # fetch_log[k][1]
    /\ {fetch_log[k][1] : k \in 1..Len(fetch_log)} = crawled

\* The queue holds a URL twice, once beyond max_depth, after two fetches.
C15_Witness ==
    /\ Len(fetch_log) = 2
    /\ \E j, k \in 1..Len(to_crawl) :
         /\ j # k
         /\ to_crawl[j][1] = to_crawl[k][1]
         /\ to_crawl[k][2] > max_depth

\* C19: crawl_recursively terminates on every link graph, cycles and
\* self-links included: the queue becomes empty, after at most one fetch
\* per distinct URL.
C19_CrawlTerminates ==
    /\ <>(crawl_pc = "returned")
    /\ [](crawl_pc = "returned" => to_crawl = << >>)
    /\ [](\A u \in CrawlPages : TimesIn(fetch_log, u) <= 1)

\* A finished crawl of a graph with a self-link and a cycle through all
\* pages.
C19_Witness ==
    /\ crawl_pc = "returned"
    /\ \E u \in CrawlPages : \E k \in 1..Len(site_links[u]) : site_links[u][k] = u
    /\ max_depth = 2
    /\ Len(fetch_log) = Cardinality(CrawlPages)
    /\ \E k \in 1..Len(site_links[UrlX]) : site_links[UrlX][k] = base_url

\* The pages at most k links away from base_url.
RECURSIVE Within(_)
Within(k) ==
    IF k = 0 THEN {base_url}
    ELSE LET near == Within(k - 1)
         IN  near \cup {site_links[p][j] : <<p, j>> \in
                          {<<q, n>> \in near \X (1..Cardinality(CrawlPages)) :
                              n <= Len(site_links[q])}}

\* The link-distance of a reachable page from base_url.
Distance(u) ==
    CHOOSE k \in 0..Cardinality(CrawlPages) :
        u \in Within(k) /\ (k = 0 \/ u \notin Within(k - 1))

\* C20: URLs are dequeued in non-decreasing depth, each first at its
\* link-distance from the seed; when every page fetch returns the page's
\* links, every URL within max_depth links of the seed is fetched exactly
\* once, and every link of a fetched page is in the returned list with that
\* page as 'Page Linked from'.
C20_BreadthFirst ==
    /\ \A j, k \in 1..Len(dequeue_log) : j < k => dequeue_log[j][2] <= dequeue_log[k][2]
    /\ ~fetch_failed =>
         \A k \in 1..Len(dequeue_log) :
            (\A j \in 1..(k - 1) : dequeue_log[j][1] # dequeue_log[k][1])
                => dequeue_log[k][2] = Distance(dequeue_log[k][1])
    /\ crawl_pc = "returned" /\ ~fetch_failed =>
         /\ \A u \in CrawlPages :
               TimesIn(fetch_log, u) = IF u \in Within(max_depth) THEN 1 ELSE 0
         /\ \A u \in Within(max_depth) : \A j \in 1..Len(site_links[u]) :
               \E k \in 1..Len(all_links) :
                   all_links[k] = Link(u, AnchorOf(site_links[u][j]), site_links[u][j])
         /\ \A k \in 1..Len(all_links) :
               /\ TimesIn(fetch_log, all_links[k].PageLinkedFrom) = 1
               /\ \E j \in 1..Len(site_links[all_links[k].PageLinkedFrom]) :
                     site_links[all_links[k].PageLinkedFrom][j] = all_links[k].URL

\* A finished crawl in which /x is linked from the seed's neighbour first
\* and from the seed itself, and is fetched at depth 1.
C20_Witness ==
    /\ crawl_pc = "returned"
    /\ ~fetch_failed
    /\ max_depth = 1
    /\ site_links[base_url] = <<UrlB, UrlX>>
    /\ site_links[UrlB] = <<UrlX, base_url>>
    /\ fetch_log = <<(<<base_url, 0>>), <<UrlB, 1>>, <<UrlX, 1>>>>
    /\ Len(all_links) = 4 + Len(site_links[UrlX])

====
